---- MODULE Spec2Model ----
(***************************************************************************)
(* A model of the earningsfeed Rust client: the transport core             *)
(* (EarningsFeed::get), the resource accessors and the pagination streams  *)
(* built on them (iter / iter_search).                                     *)
(***************************************************************************)
EXTENDS Integers, Sequences, FiniteSets, TLC

VARIABLES
    call,            \* one direct accessor call: its inputs, position and result
    iterOp,          \* the accessor whose stream is being consumed
    params,          \* the parameter object the caller passed to iter
    current_params,  \* the stream's own copy (`let mut current_params = params`)
    pc,              \* position of the stream's generator body
    consumer,        \* what the consumer of the stream is doing
    buffer,          \* items of the current page not yet yielded (the for loop)
    page,            \* has_more / next_cursor of the current page
    requests,        \* every HTTP request the stream has sent, in order
    responses,       \* the result of get for every response received, in order
    out,             \* every value the stream has produced, in order
    pulls,           \* how many times the consumer has called next()
    ended,           \* the stream has returned None
    builder,         \* the ClientConfigBuilder in the caller's hands
    config,          \* the ClientConfig value in the caller's hands
    clients,         \* the clients that exist
    outcome,         \* the last configuration operation and what it returned
    ser,             \* a parameter object being built, serialized and echoed
    twice,           \* two list calls in a row with the same parameter object
    shared,          \* one client, the handles cloned from it, the last call made
    pair             \* two streams and a call running interleaved on one client

vars == <<call, iterOp, params, current_params, pc, consumer, buffer, page,
          requests, responses, out, pulls, ended, builder, config, clients,
          outcome, ser, twice, shared, pair>>

callVars == <<call>>
iterVars == <<iterOp, params, current_params, pc, consumer, buffer, page,
              requests, responses, out, pulls, ended>>
cfgVars == <<builder, config, clients, outcome>>
serVars == <<ser>>
twiceVars == <<twice>>
sharedVars == <<shared>>
pairVars == <<pair>>

(***************************************************************************)
(* Bounds of the model.                                                    *)
(***************************************************************************)
MaxRequests == 3     \* page requests one stream may send

(***************************************************************************)
(* Option<String>.                                                         *)
(***************************************************************************)
None == [some |-> FALSE, s |-> ""]
Some(x) == [some |-> TRUE, s |-> x]

(***************************************************************************)
(* JSON as the client reads it.  A field of a JSON object is missing, null,*)
(* a number, a boolean or a string.                                        *)
(***************************************************************************)
Missing == [t |-> "missing", s |-> "", b |-> FALSE]
JNull == [t |-> "null", s |-> "", b |-> FALSE]
JNum == [t |-> "num", s |-> "", b |-> FALSE]
JStr(x) == [t |-> "str", s |-> x, b |-> FALSE]
JBool(x) == [t |-> "bool", s |-> "", b |-> x]

NoItems == [t |-> "missing", v |-> <<>>]
JArr(xs) == [t |-> "arr", v |-> xs]

\* An element of "items": a JSON object, of which the required string field
\* accessionNumber stands for the record's required fields.
ItemJson(acc) == [accessionNumber |-> acc]

\* A response body: absent, not JSON, JSON that is no object, or an object.
RawBody(k) ==
    [kind |-> k, error |-> Missing, code |-> Missing, items |-> NoItems,
     hasMore |-> Missing, nextCursor |-> Missing, accessionNumber |-> Missing]
AbsentBody == RawBody("absent")
NotJsonBody == RawBody("notjson")
ScalarBody == RawBody("scalar")
EmptyObject == RawBody("object")

ErrorObject(e, c) == [EmptyObject EXCEPT !.error = e, !.code = c]
PageObject(is, hm, nc) ==
    [EmptyObject EXCEPT !.items = is, !.hasMore = hm, !.nextCursor = nc]
DetailObject(acc) == [EmptyObject EXCEPT !.accessionNumber = acc]

(***************************************************************************)
(* serde_json::Value as obtained by response.json().await                  *)
(* .unwrap_or_default(): Value::Null unless the body is JSON.              *)
(***************************************************************************)
\* body["error"].as_str(): Some only for a string field of an object.
AsStr(body, field) ==
    IF body.kind = "object" /\ body[field].t = "str"
    THEN Some(body[field].s)
    ELSE None

UnwrapOrEmpty(opt, default) == IF opt.some THEN opt.s ELSE ""
UnwrapOr(opt, default) == IF opt.some THEN opt.s ELSE default

(***************************************************************************)
(* Decoding a 2xx body as the type the accessor binds.                     *)
(***************************************************************************)
\* Filing (and the other records): the required fields must be present.
ItemDecodes(j) == j.accessionNumber.t = "str"
DecodeItem(j) == j.accessionNumber.s

\* Option<String>: missing and null are None, a string is Some.
OptionDecodes(f) == f.t \in {"missing", "null", "str"}
DecodeOption(f) == IF f.t = "str" THEN Some(f.s) ELSE None

\* PaginatedResponse<T>: items and hasMore are required.
PageDecodesSkippingBadItems(body) ==
    /\ body.kind = "object"
    /\ body.items.t \in {"arr", "missing"}
    /\ body.hasMore.t = "bool"
    /\ OptionDecodes(body.nextCursor)
PageDecodes(body) ==
    /\ body.kind = "object"
    /\ body.items.t = "arr"
    /\ \A i \in 1..Len(body.items.v) : ItemDecodes(body.items.v[i])
    /\ body.hasMore.t = "bool"
    /\ OptionDecodes(body.nextCursor)

DecodePage(body) ==
    [t |-> "page",
     items |-> [i \in 1..Len(body.items.v) |-> DecodeItem(body.items.v[i])],
     next_cursor |-> DecodeOption(body.nextCursor),
     has_more |-> body.hasMore.b]

\* FilingDetail / Company.
DetailDecodes(body) == body.kind = "object" /\ body.accessionNumber.t = "str"
DecodeDetail(body) == [t |-> "detail", accession_number |-> body.accessionNumber.s]

Decodes(expect, body) ==
    IF expect = "page" THEN PageDecodes(body) ELSE DetailDecodes(body)
Decode(expect, body) ==
    IF expect = "page" THEN DecodePage(body) ELSE DecodeDetail(body)

(***************************************************************************)
(* The X-RateLimit-Reset header: text, read with str::parse::<u64>().      *)
(***************************************************************************)
Digits == {"0", "1", "2", "3", "4", "5", "6", "7", "8", "9"}
DigitValue(c) == CHOOSE n \in 0..9 : ToString(n) = c

\* A decimal numeral without leading zeros: the value of a u64, kept as its
\* digits because it does not fit the model checker's integers.
RECURSIVE StripZeros(_)
StripZeros(ds) ==
    IF Len(ds) > 1 /\ ds[1] = "0" THEN StripZeros(Tail(ds)) ELSE ds

\* u64::MAX = 18446744073709551615.
U64MaxDigits ==
    <<"1", "8", "4", "4", "6", "7", "4", "4", "0", "7", "3", "7", "0", "9",
      "5", "5", "1", "6", "1", "5">>

RECURSIVE NumeralLeq(_, _)
NumeralLeq(a, b) ==
    IF Len(a) # Len(b) THEN Len(a) < Len(b)
    ELSE IF a = <<>> THEN TRUE
    ELSE IF a[1] # b[1] THEN DigitValue(a[1]) < DigitValue(b[1])
    ELSE NumeralLeq(Tail(a), Tail(b))

\* A header value is a sequence of characters; NoHeader is the header missing.
NoHeader == [present |-> FALSE, text |-> <<>>]
Header(cs) == [present |-> TRUE, text |-> cs]

NoReset == [some |-> FALSE, v |-> <<>>]
ParseU64OrZero(cs) ==
    LET ds == IF cs # <<>> /\ cs[1] = "+" THEN Tail(cs) ELSE cs
    IN  IF /\ ds # <<>>
           /\ \A i \in 1..Len(ds) : ds[i] \in Digits
           /\ NumeralLeq(StripZeros(ds), U64MaxDigits)
        THEN [some |-> TRUE, v |-> StripZeros(ds)]
        ELSE [some |-> TRUE, v |-> <<"0">>]
ParseU64(cs) ==
    LET ds == IF cs # <<>> /\ cs[1] = "+" THEN Tail(cs) ELSE cs
    IN  IF /\ ds # <<>>
           /\ \A i \in 1..Len(ds) : ds[i] \in Digits
           /\ NumeralLeq(StripZeros(ds), U64MaxDigits)
        THEN [some |-> TRUE, v |-> StripZeros(ds)]
        ELSE NoReset

ResetAt(h) == IF h.present THEN ParseU64(h.text) ELSE NoReset

(***************************************************************************)
(* Result<T, Error>.                                                       *)
(***************************************************************************)
NoValue == [t |-> "none"]
Ok(v) ==
    [tag |-> "Ok", kind |-> "", cause |-> "", status |-> 0, message |-> "",
     code |-> None, path |-> "", reset_at |-> NoReset, value |-> v]
Err(k) ==
    [tag |-> "Err", kind |-> k, cause |-> "", status |-> 0, message |-> "",
     code |-> None, path |-> "", reset_at |-> NoReset, value |-> NoValue]

\* From<reqwest::Error> for Error: every reqwest error becomes Error::Http.
FromReqwestOrTimeout(cause) ==
    IF cause = "timeout" THEN Err("Timeout") ELSE [Err("Http") EXCEPT !.cause = cause]
FromReqwest(cause) == [Err("Http") EXCEPT !.cause = cause]

NoResult == [Err("") EXCEPT !.tag = "None"]

(***************************************************************************)
(* EarningsFeed::get.  resp is what request.send() meets: a transport      *)
(* failure, or a response with a status, a body and headers.               *)
(***************************************************************************)
\* The arm of `match status.as_u16()` a status selects.
MatchArmOnly200(status) ==
    IF status = 200 THEN "2xx"
    ELSE IF status = 401 THEN "401"
    ELSE IF status = 404 THEN "404"
    ELSE IF status = 429 THEN "429"
    ELSE IF status = 400 THEN "400"
    ELSE "_"

MatchArmAll4xxValidation(status) ==
    IF status \in 200..299 THEN "2xx"
    ELSE IF status = 401 THEN "401"
    ELSE IF status = 404 THEN "404"
    ELSE IF status = 429 THEN "429"
    ELSE IF status \in 400..499 THEN "400"
    ELSE "_"

MatchArm(status) ==
    IF status \in 200..299 THEN "2xx"
    ELSE IF status = 401 THEN "401"
    ELSE IF status = 404 THEN "404"
    ELSE IF status = 429 THEN "429"
    ELSE IF status = 400 THEN "400"
    ELSE "_"

get(path, expect, resp) ==
    IF ~resp.sent THEN FromReqwest(resp.failure)
    ELSE LET arm == MatchArm(resp.status) IN
    IF arm = "2xx" THEN
        IF Decodes(expect, resp.body)
        THEN Ok(Decode(expect, resp.body))
        ELSE FromReqwest("decode")
    ELSE IF arm = "401" THEN Err("Authentication")
    ELSE IF arm = "404" THEN [Err("NotFound") EXCEPT !.path = path]
    ELSE IF arm = "429" THEN
        [Err("RateLimit") EXCEPT !.reset_at = ResetAt(resp.reset)]
    ELSE IF arm = "400" THEN
        [Err("Validation") EXCEPT
            !.message = UnwrapOr(AsStr(resp.body, "error"), "Invalid request")]
    ELSE
        [Err("Api") EXCEPT
            !.status = resp.status,
            !.message = UnwrapOr(AsStr(resp.body, "error"), "Unknown error"),
            !.code = AsStr(resp.body, "code")]

(***************************************************************************)
(* The resource accessors: the path and the response type each one binds.  *)
(***************************************************************************)
ListOps == {"filings.list", "insider.list", "institutional.list", "companies.search"}
GetOps == {"filings.get", "companies.get"}
Ops == ListOps \cup GetOps

\* Identifiers passed to the two get operations.
AccessionNumbers == {"0000950170-24-000001", "invalid", "x?format=raw"}
Ciks == {320193, 999999999}
Identifiers(op) ==
    IF op = "filings.get" THEN AccessionNumbers
    ELSE IF op = "companies.get" THEN {ToString(c) : c \in Ciks}
    ELSE {""}

Path(op, id) ==
    IF op = "filings.list" THEN "/api/v1/filings"
    ELSE IF op = "filings.get" THEN "/api/v1/filings/" \o id
    ELSE IF op = "insider.list" THEN "/api/v1/insider/transactions"
    ELSE IF op = "institutional.list" THEN "/api/v1/institutional/holdings"
    ELSE IF op = "companies.get" THEN "/api/v1/companies/" \o id
    ELSE "/api/v1/companies/search"

Expect(op) == IF op \in ListOps THEN "page" ELSE "detail"

\* list / get / search: one call of the transport core.
Accessor(op, id, resp) == get(Path(op, id), Expect(op), resp)

(***************************************************************************)
(* What the server and the network can answer.                             *)
(***************************************************************************)
StatusCodes == 100..599

Messages == {"limit must be between 1 and 100"}
Codes == {"INTERNAL_ERROR"}
ErrorFields == {Missing, JNull, JNum} \cup {JStr(m) : m \in Messages}
CodeFields == {Missing, JNum} \cup {JStr(c) : c \in Codes}

Items == {"a", "b"}
Cursors == {"c1", "c2"}

\* The item lists a page may hold.
ItemLists == {<<>>, <<"a">>, <<"a", "b">>, <<"b", "a">>}

JsonItems(l) == JArr([i \in 1..Len(l) |-> ItemJson(JStr(l[i]))])

GoodPages ==
    {PageObject(JsonItems(l), JBool(hm), nc) :
        l \in ItemLists, hm \in BOOLEAN,
        nc \in {JNull} \cup {JStr(c) : c \in Cursors}}

\* 2xx bodies that do not decode as a page.
BadPages ==
    {PageObject(JArr(<<ItemJson(JStr("a")), ItemJson(Missing)>>), JBool(FALSE), JNull),
     PageObject(NoItems, JBool(FALSE), JNull),
     PageObject(JsonItems(<<"a">>), Missing, JStr("c1"))}

ErrorBodies ==
    {AbsentBody, NotJsonBody, ScalarBody}
    \cup {ErrorObject(e, c) : e \in ErrorFields, c \in CodeFields}

DetailBodies == {DetailObject(JStr("0000950170-24-000001")), DetailObject(JNum)}

SamplePages ==
    {PageObject(JsonItems(<<"a", "b">>), JBool(TRUE), JStr("c1")),
     PageObject(JsonItems(<<>>), JBool(FALSE), JNull)}

CallBodies == ErrorBodies \cup DetailBodies \cup SamplePages \cup BadPages

ResetHeaders ==
    {NoHeader,
     Header(<<"1", "7", "0", "3", "5", "2", "0", "0", "0", "0">>),
     Header(<<"s", "o", "o", "n">>),
     Header(<<>>),
     Header(<<"0">>),
     Header(<<"0", "0", "7">>),
     Header(<<"+", "5">>),
     Header(<<"-", "1">>),
     Header(<<"1", ".", "5">>),
     Header(U64MaxDigits),
     Header(<<"1", "8", "4", "4", "6", "7", "4", "4", "0", "7", "3", "7", "0",
              "9", "5", "5", "1", "6", "1", "6">>)}

Failures == {"connect", "timeout"}

Response(status, body, reset) ==
    [sent |-> TRUE, failure |-> "", status |-> status, body |-> body, reset |-> reset]
TransportFailure(f) ==
    [sent |-> FALSE, failure |-> f, status |-> 0, body |-> AbsentBody, reset |-> NoHeader]

CallResponses ==
    {TransportFailure(f) : f \in Failures}
    \cup {Response(st, b, NoHeader) : st \in StatusCodes, b \in CallBodies}
    \cup {Response(st, AbsentBody, h) : st \in {200, 429, 503}, h \in ResetHeaders}

(***************************************************************************)
(* Parameter objects.  A struct is the sequence of its fields in            *)
(* declaration order; a field is the words of its snake_case name and the   *)
(* type of its value.                                                       *)
(***************************************************************************)
Field(words, ty) == [words |-> words, ty |-> ty]

ListFilingsParams ==
    <<Field(<<"forms">>, "string"), Field(<<"ticker">>, "string"),
      Field(<<"cik">>, "uint"), Field(<<"status">>, "enum"),
      Field(<<"start", "date">>, "string"), Field(<<"end", "date">>, "string"),
      Field(<<"q">>, "string"), Field(<<"limit">>, "uint"),
      Field(<<"cursor">>, "string")>>

ListInsiderParams ==
    <<Field(<<"ticker">>, "string"), Field(<<"cik">>, "uint"),
      Field(<<"person", "cik">>, "uint"), Field(<<"direction">>, "enum"),
      Field(<<"codes">>, "string"), Field(<<"derivative">>, "bool"),
      Field(<<"min", "value">>, "uint"), Field(<<"start", "date">>, "string"),
      Field(<<"end", "date">>, "string"), Field(<<"limit">>, "uint"),
      Field(<<"cursor">>, "string")>>

ListInstitutionalParams ==
    <<Field(<<"cik">>, "uint"), Field(<<"ticker">>, "string"),
      Field(<<"cusip">>, "string"), Field(<<"manager", "cik">>, "uint"),
      Field(<<"min", "value">>, "uint"), Field(<<"put", "call">>, "enum"),
      Field(<<"report", "period">>, "string"), Field(<<"limit">>, "uint"),
      Field(<<"cursor">>, "string")>>

SearchCompaniesParams ==
    <<Field(<<"q">>, "string"), Field(<<"ticker">>, "string"),
      Field(<<"sic", "code">>, "uint"), Field(<<"state">>, "string"),
      Field(<<"limit">>, "uint"), Field(<<"cursor">>, "string")>>

Struct(op) ==
    IF op = "filings.list" THEN ListFilingsParams
    ELSE IF op = "insider.list" THEN ListInsiderParams
    ELSE IF op = "institutional.list" THEN ListInstitutionalParams
    ELSE SearchCompaniesParams

\* The name of a field in the source: its words joined by underscores.
RECURSIVE SnakeName(_)
SnakeName(words) ==
    IF Len(words) = 1 THEN words[1]
    ELSE SnakeName(SubSeq(words, 1, Len(words) - 1)) \o "_" \o words[Len(words)]

\* #[serde(rename_all = "camelCase")]: the first word as it is, every later
\* word with its first letter in upper case.
Capitalize(word) ==
    CASE word = "date" -> "Date"
      [] word = "cik" -> "Cik"
      [] word = "value" -> "Value"
      [] word = "call" -> "Call"
      [] word = "period" -> "Period"
      [] word = "code" -> "Code"

RECURSIVE CamelCase(_)
CamelCase(words) ==
    IF Len(words) = 1 THEN words[1]
    ELSE CamelCase(SubSeq(words, 1, Len(words) - 1)) \o Capitalize(words[Len(words)])

FieldNames(op) == {SnakeName(Struct(op)[i].words) : i \in 1..Len(Struct(op))}

\* Values of the fields that are not strings.
SomeUint(n) == [some |-> TRUE, s |-> "", n |-> n]
SomeEnum(variant) == [some |-> TRUE, s |-> variant]
SomeBool(b) == [some |-> TRUE, s |-> "", b |-> b]

\* #[serde(rename_all = "lowercase")] on the filter enums.
Lowercase(variant) ==
    CASE variant = "All" -> "all"
      [] variant = "Provisional" -> "provisional"
      [] variant = "Final" -> "final"
      [] variant = "Buy" -> "buy"
      [] variant = "Sell" -> "sell"
      [] variant = "Put" -> "put"
      [] variant = "Call" -> "call"
      [] variant = "Equity" -> "equity"

\* The text of a present value in the query string.
Text(ty, v) ==
    IF ty = "string" THEN v.s
    ELSE IF ty = "uint" THEN ToString(v.n)
    ELSE IF ty = "enum" THEN Lowercase(v.s)
    ELSE IF v.b THEN "true" ELSE "false"

\* Params::default(): every field None.
DefaultParams(op) == [name \in FieldNames(op) |-> None]

\* The parameter objects handed to the accessors and streams of the model.
Tickers == {"AAPL"}
CallerParams(op) ==
    {DefaultParams(op),
     [DefaultParams(op) EXCEPT !["ticker"] = Some("AAPL")],
     [DefaultParams(op) EXCEPT !["cursor"] = Some("c0")]}

\* request.query(p): #[serde(skip_serializing_if = "Option::is_none")] on every
\* field leaves the present fields, in the order of the struct.
RECURSIVE QueryFromKeepingNone(_, _)
QueryFromKeepingNone(fields, p) ==
    IF fields = <<>> THEN <<>>
    ELSE LET f == Head(fields)
             v == p[SnakeName(f.words)]
         IN  <<[key |-> CamelCase(f.words),
                value |-> IF v.some THEN Text(f.ty, v) ELSE ""]>>
             \o QueryFromKeepingNone(Tail(fields), p)
RECURSIVE QueryFrom(_, _)
QueryFrom(fields, p) ==
    IF fields = <<>> THEN <<>>
    ELSE LET f == Head(fields)
             v == p[SnakeName(f.words)]
         IN  (IF v.some
              THEN <<[key |-> CamelCase(f.words), value |-> Text(f.ty, v)]>>
              ELSE <<>>)
             \o QueryFrom(Tail(fields), p)

Query(op, p) == QueryFrom(Struct(op), p)

\* http.get(&url) parses the string it is given as a URL: what follows the
\* first '?' is the query of the URL and not part of its path.  UrlsWithQuery
\* lists the strings of the model that hold a '?', split there.
UrlsWithQuery ==
    {[path |-> "/api/v1/filings/x", raw |-> "format=raw",
      query |-> <<[key |-> "format", value |-> "raw"]>>]}

ParseUrl(url) ==
    IF \E u \in UrlsWithQuery : url = u.path \o "?" \o u.raw
    THEN LET u == CHOOSE u \in UrlsWithQuery : url = u.path \o "?" \o u.raw
         IN  [path |-> u.path, query |-> u.query]
    ELSE [path |-> url, query |-> <<>>]

\* self.inner.http.get(&url), and .query(p) when there are parameters: the
\* pairs of p are appended to the query of the URL.
BuildRequest(path, query) ==
    LET url == ParseUrl(path)
    IN  [method |-> "GET", path |-> url.path, query |-> url.query \o query]

Request(op, p) == BuildRequest(Path(op, ""), Query(op, p))

\* The request of an accessor: get passes no parameters.
NoParams == [cursor |-> None]
CallRequest(op, id, p) ==
    IF op \in GetOps THEN BuildRequest(Path(op, id), <<>>) ELSE Request(op, p)

\* request.send().await?: the requests one call of get puts on the wire.
SentWithRetry(req, resp) ==
    IF ~resp.sent \/ resp.status = 429 \/ resp.status >= 500
    THEN <<req, req>>
    ELSE <<req>>
Sent(req, resp) == <<req>>

\* The value of a query parameter of a request, None when it has no such key.
QueryParam(req, key) ==
    IF \E i \in 1..Len(req.query) : req.query[i].key = key
    THEN Some(req.query[CHOOSE i \in 1..Len(req.query) : req.query[i].key = key].value)
    ELSE None

(***************************************************************************)
(* Client configuration.  An API key is the sequence of its characters.     *)
(***************************************************************************)
DEFAULT_BASE_URL == "https://earningsfeed.com"
DEFAULT_TIMEOUT == 30

NoKey == [some |-> FALSE, v |-> <<>>]
SomeKey(k) == [some |-> TRUE, v |-> k]
NoDuration == [some |-> FALSE, secs |-> 0]
SomeDuration(n) == [some |-> TRUE, secs |-> n]

\* ClientConfigBuilder::default()
DefaultBuilder == [api_key |-> NoKey, base_url |-> None, timeout |-> NoDuration]

\* The three setters of the builder.
api_key(b, k) == [b EXCEPT !.api_key = SomeKey(k)]
base_url(b, url) == [b EXCEPT !.base_url = Some(url)]
timeout(b, d) == [b EXCEPT !.timeout = SomeDuration(d)]

ClientConfig(k, url, d) == [api_key |-> k, base_url |-> url, timeout |-> d]

NoConfig == [some |-> FALSE, v |-> ClientConfig(<<>>, None, NoDuration)]
SomeConfig(c) == [some |-> TRUE, v |-> c]
\* env!("CARGO_PKG_VERSION"): the version of the package, fixed when it is built.
VERSION == "CARGO_PKG_VERSION"

\* format!("earningsfeed-rust/{}", VERSION)
UserAgent == "earningsfeed-rust/" \o VERSION

\* A client: the default headers of its transport, its timeout, its base URL.
NoClient ==
    [some |-> FALSE, authorization |-> <<>>, user_agent |-> "", accept |-> "",
     base_url |-> "", timeout |-> 0]
SomeClient(auth, url, secs) ==
    [some |-> TRUE, authorization |-> auth, user_agent |-> UserAgent,
     accept |-> "application/json", base_url |-> url, timeout |-> secs]

\* Results of the fallible configuration operations.
OkConfig(c) ==
    [tag |-> "Ok", kind |-> "", message |-> "", config |-> SomeConfig(c),
     client |-> NoClient]
OkClient(cl) ==
    [tag |-> "Ok", kind |-> "", message |-> "", config |-> NoConfig, client |-> cl]
ConfigErr(kind, message) ==
    [tag |-> "Err", kind |-> kind, message |-> message, config |-> NoConfig,
     client |-> NoClient]

\* ClientConfigBuilder::build
buildWithoutEmptyCheck(b) ==
    IF ~b.api_key.some THEN ConfigErr("Config", "API key is required")
    ELSE OkConfig(ClientConfig(b.api_key.v, b.base_url, b.timeout))
build(b) ==
    IF ~b.api_key.some THEN ConfigErr("Config", "API key is required")
    ELSE IF b.api_key.v = <<>> THEN ConfigErr("Config", "API key cannot be empty")
    ELSE OkConfig(ClientConfig(b.api_key.v, b.base_url, b.timeout))

\* HeaderValue::from_str accepts visible ASCII, space and tab; a line feed is
\* the character of the model it rejects.
HeaderValueFromStr(cs) == \A i \in 1..Len(cs) : cs[i] # "\n"

\* format!("Bearer {}", config.api_key)
Bearer(k) == <<"Bearer ">> \o k

\* EarningsFeed::with_config; http says whether reqwest's builder succeeds.
with_configCheckingUrl(c, http) ==
    IF ~HeaderValueFromStr(Bearer(c.api_key))
    THEN ConfigErr("Config", "invalid API key format")
    ELSE IF c.base_url \in {Some(""), Some("not a url")}
    THEN ConfigErr("Config", "invalid base URL")
    ELSE OkClient(SomeClient(Bearer(c.api_key),
                             UnwrapOr(c.base_url, DEFAULT_BASE_URL),
                             IF c.timeout.some THEN c.timeout.secs
                             ELSE DEFAULT_TIMEOUT))
with_config(c, http) ==
    IF ~HeaderValueFromStr(Bearer(c.api_key))
    THEN ConfigErr("Config", "invalid API key format")
    ELSE IF ~http THEN ConfigErr("Http", "")
    ELSE OkClient(SomeClient(Bearer(c.api_key),
                             UnwrapOr(c.base_url, DEFAULT_BASE_URL),
                             IF c.timeout.some THEN c.timeout.secs
                             ELSE DEFAULT_TIMEOUT))

\* EarningsFeed::new
new(k, http) ==
    LET r == build(api_key(DefaultBuilder, k))
    IN  IF r.tag = "Err" THEN r ELSE with_config(r.config.v, http)

\* The API key a client handle sends in its Authorization header.
ApiKeyOf(cl) == Tail(cl.authorization)

NoOutcome == [op |-> "none", input |-> DefaultBuilder, result |-> ConfigErr("", "")]

\* No configuration is in the caller's hands and no client exists.
CfgIdle ==
    /\ builder = DefaultBuilder
    /\ config = NoConfig
    /\ clients = {}
    /\ outcome = NoOutcome

(***************************************************************************)
(* Building a parameter object and serializing it.                          *)
(***************************************************************************)
MaxForms == 2

\* collect::<Vec<_>>().join(","): the elements in order, a comma between two.
RECURSIVE JoinReversed(_)
JoinReversed(list) ==
    IF list = <<>> THEN ""
    ELSE IF Len(list) = 1 THEN list[1]
    ELSE JoinReversed(Tail(list)) \o "," \o list[1]
RECURSIVE Join(_)
Join(list) ==
    IF list = <<>> THEN ""
    ELSE IF Len(list) = 1 THEN list[1]
    ELSE list[1] \o "," \o Join(Tail(list))

\* The builder methods: every one stores Some(value) in its field.
With(p, name, v) == [p EXCEPT ![name] = v]
forms(p, list) == With(p, "forms", Some(Join(list)))
codes(p, list) == With(p, "codes", Some(Join(list)))

\* The field the list builder of a struct fills, if it has one.
ListField(op) ==
    IF op = "filings.list" THEN "forms"
    ELSE IF op = "insider.list" THEN "codes"
    ELSE ""

\* Lists a caller hands to forms or codes.
Elements == {"10-K", "8-K", "a,b"}
Lists ==
    {<<>>} \cup UNION {[1..n -> Elements \ {"a,b"}] : n \in 1..MaxForms}
           \cup {<<"a,b">>}

\* Values a caller hands to the other builder methods.
Values(f) ==
    IF f.ty = "string" THEN
        {Some(IF f.words = <<"ticker">> THEN "AAPL"
              ELSE IF f.words[Len(f.words)] \in {"date", "period"} THEN "2024-01-31"
              ELSE IF f.words = <<"cursor">> THEN "c0"
              ELSE "x")}
    ELSE IF f.ty = "uint" THEN
        {SomeUint(IF f.words = <<"limit">> THEN 25 ELSE 320193)}
    ELSE IF f.ty = "bool" THEN {SomeBool(TRUE), SomeBool(FALSE)}
    ELSE IF f.words = <<"status">> THEN {SomeEnum("Final"), SomeEnum("All")}
    ELSE IF f.words = <<"direction">> THEN {SomeEnum("Buy"), SomeEnum("Sell")}
    ELSE {SomeEnum("Call"), SomeEnum("Equity")}

NoList == [some |-> FALSE, list |-> <<>>]
SomeList(l) == [some |-> TRUE, list |-> l]

\* No parameter object is being built.
SerIdle ==
    ser = [pc |-> "idle", op |-> "filings.list",
           p |-> DefaultParams("filings.list"), given |-> NoList, query |-> <<>>]

(***************************************************************************)
(* Two list calls in a row.                                                 *)
(***************************************************************************)
\* list(&self, params: &P): both are borrowed shared, the call leaves them
\* as they were.
AfterListAdvancing(p, result) ==
    IF result.tag = "Ok" /\ result.value.next_cursor.some
    THEN [p EXCEPT !.cursor = result.value.next_cursor]
    ELSE p
AfterList(p, result) == p

\* The handle the calls are made on.
TheClient == with_config(ClientConfig(<<"k">>, None, NoDuration), TRUE).client

\* No pair of calls is made.
TwiceIdle ==
    twice = [pc |-> "idle", op |-> "filings.list",
             given |-> DefaultParams("filings.list"),
             p |-> DefaultParams("filings.list"), created |-> NoClient,
             client |-> NoClient, server |-> <<>>, requests |-> <<>>,
             first |-> NoResult, second |-> NoResult]

\* No client is shared between handles or between streams.
SharedIdle == shared = [pc |-> "idle"] /\ pair = [pc |-> "idle"]

OthersIdle == CfgIdle /\ SerIdle /\ TwiceIdle /\ SharedIdle

(***************************************************************************)
(* A direct call of an accessor: the inputs are drawn when the call is     *)
(* made, and Call runs it against the answer of the network.               *)
(***************************************************************************)
\* No stream has been created.
IterIdle ==
    /\ iterOp = "filings.list"
    /\ params = DefaultParams("filings.list")
    /\ current_params = params
    /\ pc = "list"
    /\ consumer = "none"
    /\ buffer = <<>>
    /\ page = [has_more |-> FALSE, next_cursor |-> None]
    /\ requests = <<>>
    /\ responses = <<>>
    /\ out = <<>>
    /\ pulls = 0
    /\ ended = FALSE

\* No direct call is made.
CallIdle ==
    call = [pc |-> "idle", op |-> "filings.list", id |-> "", params |-> NoParams,
            resp |-> TransportFailure("connect"), requests |-> <<>>,
            result |-> NoResult]

CallParams(op) == IF op \in GetOps THEN {NoParams} ELSE CallerParams(op)

InitCall ==
    /\ \E op \in Ops : \E id \in Identifiers(op) : \E p \in CallParams(op) :
       \E resp \in CallResponses :
          call = [pc |-> "pending", op |-> op, id |-> id, params |-> p,
                  resp |-> resp, requests |-> <<>>, result |-> NoResult]
    /\ IterIdle
    /\ OthersIdle

Call ==
    /\ call.pc = "pending"
    /\ call' = [call EXCEPT
                   !.pc = "returned",
                   !.requests = Sent(CallRequest(call.op, call.id, call.params),
                                     call.resp),
                   !.result = Accessor(call.op, call.id, call.resp)]
    /\ UNCHANGED <<iterVars, cfgVars, serVars, twiceVars, sharedVars, pairVars>>

NextCall == Call

SpecCall == InitCall /\ [][NextCall]_vars

(***************************************************************************)
(* What a page request of a stream can be answered with.                   *)
(***************************************************************************)
IterFailures ==
    {TransportFailure("timeout"),
     Response(404, ErrorObject(JStr("limit must be between 1 and 100"), Missing), NoHeader),
     Response(429, AbsentBody, NoHeader),
     Response(500, NotJsonBody, NoHeader)}
    \cup {Response(200, b, NoHeader) : b \in BadPages}

IterResponses ==
    {Response(200, b, NoHeader) : b \in GoodPages}
    \cup {Response(200, PageObject(JsonItems(<<"a">>), JBool(TRUE), Missing), NoHeader)}
    \cup IterFailures

(***************************************************************************)
(* The stream of iter / iter_search: a generator that runs only while the  *)
(* consumer polls it.                                                      *)
(***************************************************************************)
Item(x) == [t |-> "item", item |-> x, err |-> NoResult]
Error(e) == [t |-> "err", item |-> "", err |-> e]

\* The generator makes progress only inside a poll of the consumer.
PolledOrIdle == consumer # "stopped"
Polled == consumer = "pulling"

\* `for item in response.items { yield item; }`: the next item yielded.
NextItemFromBack(buf) == buf[Len(buf)]
NextItem(buf) == Head(buf)

\* After the items of a page: break, or follow the cursor.
AfterPageIgnoringHasMore(has_more, next_cursor) ==
    IF next_cursor.some THEN "continue" ELSE "break"
AfterPageWheneverMore(has_more, next_cursor) ==
    IF ~has_more THEN "break" ELSE "continue"
AfterPageWithPageLimit(has_more, next_cursor) ==
    IF ~has_more \/ Len(responses) >= 2 THEN "break"
    ELSE IF next_cursor.some THEN "continue"
    ELSE "break"
AfterPage(has_more, next_cursor) ==
    IF ~has_more THEN "break"
    ELSE IF next_cursor.some THEN "continue"
    ELSE "break"

\* `current_params.cursor = Some(cursor)`.
KeepCursor(p, cursor) == p
SetCursorDroppingFilters(p, cursor) ==
    [p EXCEPT !.cursor = cursor, !.ticker = None]
SetCursor(p, cursor) == [p EXCEPT !.cursor = cursor]

InitIter ==
    /\ CallIdle
    /\ OthersIdle
    /\ iterOp \in ListOps
    /\ params \in CallerParams(iterOp)
    /\ current_params = params
    /\ pc = "list"
    /\ consumer = "idle"
    /\ buffer = <<>>
    /\ page = [has_more |-> FALSE, next_cursor |-> None]
    /\ requests = <<>>
    /\ responses = <<>>
    /\ out = <<>>
    /\ pulls = 0
    /\ ended = FALSE

\* The consumer calls stream.next().
Pull ==
    /\ consumer = "idle"
    /\ ~ended
    /\ consumer' = "pulling"
    /\ pulls' = pulls + 1
    /\ UNCHANGED <<call, iterOp, params, current_params, pc, buffer, page,
                   requests, responses, out, ended,
                   cfgVars, serVars, twiceVars, sharedVars, pairVars>>

\* The consumer stops pulling: it leaves its loop or drops the stream.
Stop ==
    /\ consumer \in {"idle", "pulling"}
    /\ ~ended
    /\ consumer' = "stopped"
    /\ UNCHANGED <<call, iterOp, params, current_params, pc, buffer, page,
                   requests, responses, out, pulls, ended,
                   cfgVars, serVars, twiceVars, sharedVars, pairVars>>

\* `self.list(&current_params)`: the request is sent.
SendPipelined ==
    /\ Polled
    /\ pc \in {"list", "await"}
    /\ Len(requests) < MaxRequests
    /\ requests' = Append(requests, Request(iterOp, current_params))
    /\ pc' = "await"
    /\ UNCHANGED <<call, iterOp, params, current_params, consumer, buffer, page,
                   responses, out, pulls, ended,
                   cfgVars, serVars, twiceVars, sharedVars, pairVars>>
Send ==
    /\ Polled
    /\ pc = "list"
    /\ Len(requests) < MaxRequests
    /\ requests' = Append(requests, Request(iterOp, current_params))
    /\ pc' = "await"
    /\ UNCHANGED <<call, iterOp, params, current_params, consumer, buffer, page,
                   responses, out, pulls, ended,
                   cfgVars, serVars, twiceVars, sharedVars, pairVars>>

\* `.await?`: the answer arrives; an error is yielded and ends the stream.
ReceiveAndRetry ==
    /\ Polled
    /\ pc = "await"
    /\ \E resp \in IterResponses :
         LET result == Accessor(iterOp, "", resp) IN
         /\ responses' = Append(responses, result)
         /\ IF result.tag = "Err"
            THEN /\ pc' = "list"
                 /\ UNCHANGED <<out, consumer, buffer, page>>
            ELSE /\ pc' = "items"
                 /\ buffer' = result.value.items
                 /\ page' = [has_more |-> result.value.has_more,
                             next_cursor |-> result.value.next_cursor]
                 /\ UNCHANGED <<out, consumer>>
    /\ UNCHANGED <<call, iterOp, params, current_params, requests, pulls, ended,
                   cfgVars, serVars, twiceVars, sharedVars, pairVars>>

Receive ==
    /\ Polled
    /\ pc = "await"
    /\ \E resp \in IterResponses :
         LET result == Accessor(iterOp, "", resp) IN
         /\ responses' = Append(responses, result)
         /\ IF result.tag = "Err"
            THEN /\ out' = Append(out, Error(result))
                 /\ pc' = "done"
                 /\ consumer' = "idle"
                 /\ UNCHANGED <<buffer, page>>
            ELSE /\ pc' = "items"
                 /\ buffer' = result.value.items
                 /\ page' = [has_more |-> result.value.has_more,
                             next_cursor |-> result.value.next_cursor]
                 /\ UNCHANGED <<out, consumer>>
    /\ UNCHANGED <<call, iterOp, params, current_params, requests, pulls, ended,
                   cfgVars, serVars, twiceVars, sharedVars, pairVars>>

\* `yield item`: the poll returns the item.
Yield ==
    /\ Polled
    /\ pc = "items"
    /\ buffer # <<>>
    /\ out' = Append(out, Item(NextItem(buffer)))
    /\ buffer' = Tail(buffer)
    /\ consumer' = "idle"
    /\ UNCHANGED <<call, iterOp, params, current_params, pc, page, requests,
                   responses, pulls, ended,
                   cfgVars, serVars, twiceVars, sharedVars, pairVars>>

\* The for loop is over and the page says where to go: the loop continues
\* with the cursor of the page.
Continue ==
    /\ Polled
    /\ pc = "items"
    /\ buffer = <<>>
    /\ AfterPage(page.has_more, page.next_cursor) = "continue"
    /\ current_params' = SetCursor(current_params, page.next_cursor)
    /\ pc' = "list"
    /\ UNCHANGED <<call, iterOp, params, consumer, buffer, page, requests,
                   responses, out, pulls, ended,
                   cfgVars, serVars, twiceVars, sharedVars, pairVars>>

\* `break`: the generator returns and the poll returns None.
Break ==
    /\ Polled
    /\ pc = "items"
    /\ buffer = <<>>
    /\ AfterPage(page.has_more, page.next_cursor) = "break"
    /\ pc' = "done"
    /\ ended' = TRUE
    /\ consumer' = "idle"
    /\ UNCHANGED <<call, iterOp, params, current_params, buffer, page, requests,
                   responses, out, pulls,
                   cfgVars, serVars, twiceVars, sharedVars, pairVars>>

\* A poll after the error was yielded: the generator has returned.
PollDone ==
    /\ Polled
    /\ pc = "done"
    /\ ~ended
    /\ ended' = TRUE
    /\ consumer' = "idle"
    /\ UNCHANGED <<call, iterOp, params, current_params, pc, buffer, page,
                   requests, responses, out, pulls,
                   cfgVars, serVars, twiceVars, sharedVars, pairVars>>

Next ==
    \/ Pull
    \/ Stop
    \/ Send
    \/ Receive
    \/ Yield
    \/ Continue
    \/ Break
    \/ PollDone

Init == InitIter
Spec == Init /\ [][Next]_vars

\* A consumer that keeps pulling: it never leaves its loop, the runtime runs
\* the stream while it is polled, and every request sent is answered or fails.
NextPulling ==
    \/ Pull
    \/ Send
    \/ Receive
    \/ Yield
    \/ Continue
    \/ Break
    \/ PollDone

\* The loops of the four streams are copies of one another and do not look at
\* the filters: two of them, with no filter set, stand for all.
InitPulling ==
    /\ InitIter
    /\ iterOp \in {"filings.list", "insider.list"}
    /\ params = DefaultParams(iterOp)

SpecPulling == InitPulling /\ [][NextPulling]_vars /\ WF_vars(NextPulling)

(***************************************************************************)
(* Either use of a client: one direct call, or one stream.                  *)
(***************************************************************************)
InitAll == InitCall \/ InitIter
NextAll == Call \/ Next
SpecAll == InitAll /\ [][NextAll]_vars

(***************************************************************************)
(* Configuring and creating clients.                                        *)
(***************************************************************************)
MaxClients == 1

Keys == {<<>>, <<"k">>, <<"k", "\n">>}
BaseUrls == {"http://localhost:8080"}
Timeouts == {60}

Outcome(op, input, result) == [op |-> op, input |-> input, result |-> result]

InitConfig == CallIdle /\ IterIdle /\ OthersIdle

\* builder.api_key(k)
SetApiKey ==
    /\ \E k \in Keys : builder' = api_key(builder, k)
    /\ UNCHANGED <<config, clients, outcome, callVars, iterVars, serVars, twiceVars, sharedVars, pairVars>>

\* builder.base_url(url)
SetBaseUrl ==
    /\ \E url \in BaseUrls : builder' = base_url(builder, url)
    /\ UNCHANGED <<config, clients, outcome, callVars, iterVars, serVars, twiceVars, sharedVars, pairVars>>

\* builder.timeout(d)
SetTimeout ==
    /\ \E d \in Timeouts : builder' = timeout(builder, d)
    /\ UNCHANGED <<config, clients, outcome, callVars, iterVars, serVars, twiceVars, sharedVars, pairVars>>

\* builder.build(): the builder is consumed; the caller starts over with
\* ClientConfig::builder().
Build ==
    LET r == build(builder) IN
    /\ outcome' = Outcome("build", builder, r)
    /\ config' = IF r.tag = "Ok" THEN r.config ELSE config
    /\ builder' = DefaultBuilder
    /\ UNCHANGED <<clients, callVars, iterVars, serVars, twiceVars, sharedVars, pairVars>>

\* ClientConfig { api_key, base_url, timeout }: the fields are public, so a
\* value is written without the builder.
Construct ==
    /\ \E k \in Keys : \E url \in {None} \cup {Some(u) : u \in BaseUrls} :
       \E d \in {NoDuration} \cup {SomeDuration(t) : t \in Timeouts} :
          config' = SomeConfig(ClientConfig(k, url, d))
    /\ UNCHANGED <<builder, clients, outcome, callVars, iterVars, serVars, twiceVars, sharedVars, pairVars>>

\* config.api_key = k
MutateApiKey ==
    /\ config.some
    /\ \E k \in Keys : config' = SomeConfig([config.v EXCEPT !.api_key = k])
    /\ UNCHANGED <<builder, clients, outcome, callVars, iterVars, serVars, twiceVars, sharedVars, pairVars>>

\* EarningsFeed::new(k)
New ==
    /\ Cardinality(clients) < MaxClients
    /\ \E k \in Keys : \E http \in BOOLEAN :
         LET r == new(k, http) IN
         /\ outcome' = Outcome("new", api_key(DefaultBuilder, k), r)
         /\ clients' = IF r.tag = "Ok" THEN clients \cup {r.client} ELSE clients
    /\ UNCHANGED <<builder, config, callVars, iterVars, serVars, twiceVars, sharedVars, pairVars>>

\* EarningsFeed::with_config(config.clone())
WithConfig ==
    /\ Cardinality(clients) < MaxClients
    /\ config.some
    /\ \E http \in BOOLEAN :
         LET r == with_config(config.v, http) IN
         /\ outcome' = Outcome("with_config",
                               [api_key |-> SomeKey(config.v.api_key),
                                base_url |-> config.v.base_url,
                                timeout |-> config.v.timeout], r)
         /\ clients' = IF r.tag = "Ok" THEN clients \cup {r.client} ELSE clients
    /\ UNCHANGED <<builder, config, callVars, iterVars, serVars, twiceVars, sharedVars, pairVars>>

NextConfig ==
    \/ SetApiKey
    \/ SetBaseUrl
    \/ SetTimeout
    \/ Build
    \/ Construct
    \/ MutateApiKey
    \/ New
    \/ WithConfig

SpecConfig == InitConfig /\ [][NextConfig]_vars

(***************************************************************************)
(* Building a parameter object with its builder and sending it.             *)
(***************************************************************************)
InitParams ==
    /\ CallIdle
    /\ IterIdle
    /\ CfgIdle
    /\ TwiceIdle
    /\ SharedIdle
    /\ \E op \in ListOps :
          ser = [pc |-> "building", op |-> op, p |-> DefaultParams(op),
                 given |-> NoList, query |-> <<>>]

\* One of the single-valued builder methods.
Set ==
    /\ ser.pc = "building"
    /\ \E i \in 1..Len(Struct(ser.op)) :
         LET f == Struct(ser.op)[i] IN
         /\ SnakeName(f.words) # ListField(ser.op)
         /\ \E v \in Values(f) :
              ser' = [ser EXCEPT !.p = With(ser.p, SnakeName(f.words), v)]
    /\ UNCHANGED <<callVars, iterVars, cfgVars, twiceVars, sharedVars, pairVars>>

\* builder.forms(list) or builder.codes(list)
SetList ==
    /\ ser.pc = "building"
    /\ ListField(ser.op) # ""
    /\ \E list \in Lists :
         ser' = [ser EXCEPT !.p = IF ser.op = "filings.list"
                                  THEN forms(ser.p, list)
                                  ELSE codes(ser.p, list),
                            !.given = SomeList(list)]
    /\ UNCHANGED <<callVars, iterVars, cfgVars, twiceVars, sharedVars, pairVars>>

\* builder.build() and the list or search call: the query of the request.
Serialize ==
    /\ ser.pc = "building"
    /\ ser' = [ser EXCEPT !.pc = "sent", !.query = Request(ser.op, ser.p).query]
    /\ UNCHANGED <<callVars, iterVars, cfgVars, twiceVars, sharedVars, pairVars>>

NextParams ==
    \/ Set
    \/ SetList
    \/ Serialize

SpecParams == InitParams /\ [][NextParams]_vars

(***************************************************************************)
(* Calling list twice on one client with one parameter object.  The server  *)
(* is a function: the same request gets the same answer.                    *)
(***************************************************************************)
ServerAnswers ==
    {Response(200, b, NoHeader) : b \in SamplePages}
    \cup {Response(404, AbsentBody, NoHeader)}

ServerRequests(op) ==
    {Request(op, q) : q \in CallerParams(op)}
    \cup {Request(op, SetCursor(q, Some("c1"))) : q \in CallerParams(op)}

InitTwice ==
    /\ CallIdle
    /\ IterIdle
    /\ CfgIdle
    /\ SerIdle
    /\ SharedIdle
    /\ \E op \in ListOps : \E p \in CallerParams(op) :
       \E server \in [ServerRequests(op) -> ServerAnswers] :
          twice = [pc |-> "first", op |-> op, given |-> p, p |-> p,
                   created |-> TheClient, client |-> TheClient,
                   server |-> server, requests |-> <<>>,
                   first |-> NoResult, second |-> NoResult]

\* client.filings().list(&params).await, the first time
ListFirst ==
    /\ twice.pc = "first"
    /\ LET req == Request(twice.op, twice.p)
           result == Accessor(twice.op, "", twice.server[req])
       IN  twice' = [twice EXCEPT !.pc = "second",
                                  !.requests = Append(@, req),
                                  !.first = result,
                                  !.p = AfterList(@, result)]
    /\ UNCHANGED <<callVars, iterVars, cfgVars, serVars, sharedVars, pairVars>>

\* client.filings().list(&params).await, the second time
ListSecond ==
    /\ twice.pc = "second"
    /\ LET req == Request(twice.op, twice.p)
           result == Accessor(twice.op, "", twice.server[req])
       IN  twice' = [twice EXCEPT !.pc = "done",
                                  !.requests = Append(@, req),
                                  !.second = result,
                                  !.p = AfterList(@, result)]
    /\ UNCHANGED <<callVars, iterVars, cfgVars, serVars, sharedVars, pairVars>>

NextTwice ==
    \/ ListFirst
    \/ ListSecond

SpecTwice == InitTwice /\ [][NextTwice]_vars

(***************************************************************************)
(* One client and the handles cloned from it.                               *)
(***************************************************************************)
MaxHandles == 2

\* #[derive(Clone)] on a struct holding an Arc: the clone shares the inner
\* client.
CloneWithDefaultUrl(cl) == [cl EXCEPT !.base_url = DEFAULT_BASE_URL]
Clone(cl) == cl

\* The transport adds the default headers of the client to every request.
DefaultHeadersWithoutAccept(cl) ==
    [authorization |-> cl.authorization, user_agent |-> cl.user_agent,
     accept |-> ""]
DefaultHeaders(cl) ==
    [authorization |-> cl.authorization, user_agent |-> cl.user_agent,
     accept |-> cl.accept]

\* Whether format!("{}{}", base_url, path) parses as an absolute URL, for the
\* base URLs of the model.
UrlParses(base) == base \in {DEFAULT_BASE_URL, "http://localhost:8080"}

\* http.get(&url) ... send(): a URL that does not parse fails in send before
\* anything goes on the wire; otherwise the request goes out with the default
\* headers and the answer is what the server or the network gives.
SendVia(cl, req, resp) ==
    IF UrlParses(cl.base_url)
    THEN [wire |-> <<[base |-> cl.base_url, request |-> req,
                      headers |-> DefaultHeaders(cl)]>>,
          resp |-> resp]
    ELSE [wire |-> <<>>, resp |-> TransportFailure("builder")]

NoSharedCall ==
    [handle |-> 0, op |-> "", wire |-> <<>>, result |-> NoResult, base |-> ""]

InitShared ==
    /\ CallIdle
    /\ IterIdle
    /\ CfgIdle
    /\ SerIdle
    /\ TwiceIdle
    /\ pair = [pc |-> "idle"]
    /\ \E k \in {<<"k">>, <<"s", "k">>} :
       \E url \in {"", "http://localhost:8080", "not a url", "unset"} :
       \E d \in {NoDuration} \cup {SomeDuration(t) : t \in Timeouts} :
          LET b0 == api_key(DefaultBuilder, k)
              b1 == IF url = "unset" THEN b0 ELSE base_url(b0, url)
              b2 == IF d.some THEN timeout(b1, d.secs) ELSE b1
              built == build(b2)
              made == with_config(built.config.v, TRUE)
          IN  shared = [pc |-> "ready", built |-> built, made |-> made,
                        config |-> built.config.v, created |-> made.client,
                        handles |-> <<made.client>>, last |-> NoSharedCall]

\* client.clone()
CloneHandle ==
    /\ shared.pc = "ready"
    /\ Len(shared.handles) < MaxHandles
    /\ \E h \in 1..Len(shared.handles) :
          shared' = [shared EXCEPT !.handles = Append(@, Clone(shared.handles[h]))]
    /\ UNCHANGED <<callVars, iterVars, cfgVars, serVars, twiceVars, pairVars>>

\* A list or get call through one of the handles; base is what base_url()
\* of that handle returns.
CallVia ==
    /\ shared.pc = "ready"
    /\ \E h \in 1..Len(shared.handles) :
       \E op \in {"filings.list", "filings.get"} :
       \E resp \in {Response(200, b, NoHeader) : b \in SamplePages}
                     \cup {Response(404, AbsentBody, NoHeader),
                           TransportFailure("timeout")} :
          LET cl == shared.handles[h]
              id == IF op \in GetOps THEN "invalid" ELSE ""
              req == CallRequest(op, id, DefaultParams(op))
              sent == SendVia(cl, req, resp)
          IN  shared' = [shared EXCEPT
                           !.last = [handle |-> h, op |-> op, wire |-> sent.wire,
                                     result |-> Accessor(op, id, sent.resp),
                                     base |-> cl.base_url]]
    /\ UNCHANGED <<callVars, iterVars, cfgVars, serVars, twiceVars, pairVars>>

SpecShared == InitShared /\ [][CloneHandle \/ CallVia]_vars

(***************************************************************************)
(* Two streams and a direct call running interleaved on one client and its  *)
(* clones.  The server is a function of the request.  A stream suspends at  *)
(* its await and at each yield, so these are the points where another task  *)
(* may run.                                                                 *)
(***************************************************************************)
MaxPages == 2

\* `let mut current_params = params;`: the parameter object a stream writes
\* its cursor to is its own local.
CursorOwnerShared(i) == 1
CursorOwner(i) == i

NewStream(p) ==
    [params |-> p, current_params |-> p, pc |-> "list", buffer |-> <<>>,
     page |-> [has_more |-> FALSE, next_cursor |-> None], requests |-> <<>>,
     out |-> <<>>]

InitPair ==
    /\ CallIdle
    /\ IterIdle
    /\ CfgIdle
    /\ SerIdle
    /\ TwiceIdle
    /\ shared = [pc |-> "idle"]
    /\ \E op \in {"filings.list", "companies.search"} :
       \E p \in CallerParams(op) \ {DefaultParams(op)} :
       \E server \in [ServerRequests(op) -> ServerAnswers] :
          pair = [pc |-> "run", op |-> op, server |-> server,
                  its |-> <<NewStream(DefaultParams(op)), NewStream(p)>>,
                  direct |-> NoResult]

\* self.list(&current_params) of stream i: the request is sent.
PairSend ==
    /\ pair.pc = "run"
    /\ \E i \in 1..2 :
         LET it == pair.its[i] IN
         /\ it.pc = "list"
         /\ Len(it.requests) < MaxPages
         /\ pair' = [pair EXCEPT
                       !.its[i].requests = Append(@, Request(pair.op, it.current_params)),
                       !.its[i].pc = "await"]
    /\ UNCHANGED <<callVars, iterVars, cfgVars, serVars, twiceVars, sharedVars>>

\* .await? of stream i: the answer to its request arrives.
PairReceive ==
    /\ pair.pc = "run"
    /\ \E i \in 1..2 :
         LET it == pair.its[i]
             result == Accessor(pair.op, "", pair.server[it.requests[Len(it.requests)]])
         IN
         /\ it.pc = "await"
         /\ pair' = IF result.tag = "Err"
                    THEN [pair EXCEPT !.its[i].out = Append(@, Error(result)),
                                      !.its[i].pc = "done"]
                    ELSE [pair EXCEPT
                            !.its[i].buffer = result.value.items,
                            !.its[i].page = [has_more |-> result.value.has_more,
                                             next_cursor |-> result.value.next_cursor],
                            !.its[i].pc = "items"]
    /\ UNCHANGED <<callVars, iterVars, cfgVars, serVars, twiceVars, sharedVars>>

\* `yield item` of stream i
PairYield ==
    /\ pair.pc = "run"
    /\ \E i \in 1..2 :
         LET it == pair.its[i] IN
         /\ it.pc = "items"
         /\ it.buffer # <<>>
         /\ pair' = [pair EXCEPT !.its[i].out = Append(@, Item(NextItem(it.buffer))),
                                 !.its[i].buffer = Tail(@)]
    /\ UNCHANGED <<callVars, iterVars, cfgVars, serVars, twiceVars, sharedVars>>

\* The end of a page of stream i: break, or store the cursor and loop.
PairAdvance ==
    /\ pair.pc = "run"
    /\ \E i \in 1..2 :
         LET it == pair.its[i]
             o == CursorOwner(i)
         IN
         /\ it.pc = "items"
         /\ it.buffer = <<>>
         /\ pair' = IF AfterPage(it.page.has_more, it.page.next_cursor) = "break"
                    THEN [pair EXCEPT !.its[i].pc = "done"]
                    ELSE [[pair EXCEPT !.its[i].pc = "list"] EXCEPT
                            !.its[o].current_params =
                                SetCursor(@, it.page.next_cursor)]
    /\ UNCHANGED <<callVars, iterVars, cfgVars, serVars, twiceVars, sharedVars>>

\* client.filings().list(&params).await on a clone, between steps of the streams
PairCall ==
    /\ pair.pc = "run"
    /\ pair.direct = NoResult
    /\ pair' = [pair EXCEPT
                  !.direct = Accessor(pair.op, "",
                                 pair.server[Request(pair.op, DefaultParams(pair.op))])]
    /\ UNCHANGED <<callVars, iterVars, cfgVars, serVars, twiceVars, sharedVars>>

SpecPair ==
    InitPair /\ [][PairSend \/ PairReceive \/ PairYield \/ PairAdvance \/ PairCall]_vars

(***************************************************************************)
(* Claims about the transport core, checked under SpecCall.                *)
(***************************************************************************)
Returned == call.pc = "returned"
GotStatus(st) == Returned /\ call.resp.sent /\ call.resp.status = st
Got2xx == Returned /\ call.resp.sent /\ call.resp.status \in 200..299
GotNon2xx == Returned /\ call.resp.sent /\ call.resp.status \notin 200..299

\* The table of the error taxonomy.
KindOfStatus(st) ==
    IF st = 401 THEN "Authentication"
    ELSE IF st = 404 THEN "NotFound"
    ELSE IF st = 400 THEN "Validation"
    ELSE IF st = 429 THEN "RateLimit"
    ELSE "Api"

StatusKinds == {"Authentication", "NotFound", "Validation", "RateLimit", "Api"}
ErrorKinds == StatusKinds \cup {"Timeout", "Http", "Json", "Config"}

\* C1: a status outside 200..299 makes list, get and search return an error
\* whose kind the status alone fixes (401 Authentication, 404 NotFound, 400
\* Validation, 429 RateLimit, any other Api with that status), never a success.
C1_StatusFixesKind ==
    GotNon2xx =>
        /\ call.result.tag = "Err"
        /\ call.result.kind = KindOfStatus(call.resp.status)
        /\ call.result.kind = "Api" => call.result.status = call.resp.status

C1_Witness ==
    /\ GotStatus(503)
    /\ call.op = "companies.search"
    /\ call.result.kind = "Api"
    /\ call.result.status = 503

\* C2: the body of a non-2xx response never changes the kind; a string "error"
\* (and, for Api, a string "code") is carried verbatim, and anything else gives
\* the fallback message ("Invalid request", "Unknown error") and an absent code.
HasString(body, field) == body.kind = "object" /\ body[field].t = "str"

C2_ErrorBodyFallback ==
    GotNon2xx =>
        LET body == call.resp.body
            r == call.result
        IN  /\ r.tag = "Err"
            /\ r.kind = KindOfStatus(call.resp.status)
            /\ r.kind = "Validation" =>
                  r.message = IF HasString(body, "error") THEN body.error.s
                              ELSE "Invalid request"
            /\ r.kind = "Api" =>
                  /\ r.message = IF HasString(body, "error") THEN body.error.s
                                 ELSE "Unknown error"
                  /\ r.code = IF HasString(body, "code") THEN Some(body.code.s)
                              ELSE None

C2_Witness ==
    /\ GotStatus(500)
    /\ call.resp.body = NotJsonBody
    /\ call.result.kind = "Api"
    /\ call.result.message = "Unknown error"
    /\ call.result.code = None

\* C3: a 2xx response whose body does not decode as the expected structure
\* gives Error::Json, a kind other than the Error::Http of transport failures.
C3_DecodeFailureIsJson ==
    (Got2xx /\ ~Decodes(Expect(call.op), call.resp.body)) =>
        /\ call.result.tag = "Err"
        /\ call.result.kind = "Json"

\* C4: every status in 200..299 with a decodable body gives that decoded body
\* as a success, no 2xx status gives one of the status kinds, and a failed call
\* carries exactly one kind of the taxonomy.
IsDecodedBody(v, expect, body) ==
    IF expect = "page"
    THEN /\ v.t = "page"
         /\ Len(v.items) = Len(body.items.v)
         /\ \A i \in 1..Len(v.items) : v.items[i] = body.items.v[i].accessionNumber.s
         /\ v.has_more = body.hasMore.b
         /\ v.next_cursor =
               IF body.nextCursor.t = "str" THEN Some(body.nextCursor.s) ELSE None
    ELSE /\ v.t = "detail"
         /\ v.accession_number = body.accessionNumber.s

C4_SuccessOn2xx ==
    /\ Got2xx =>
          /\ Decodes(Expect(call.op), call.resp.body) =>
                /\ call.result.tag = "Ok"
                /\ IsDecodedBody(call.result.value, Expect(call.op), call.resp.body)
          /\ call.result.kind \notin StatusKinds
    /\ Returned =>
          /\ call.result.tag \in {"Ok", "Err"}
          /\ call.result.tag = "Err" <=> call.result.kind \in ErrorKinds
          /\ call.result.tag = "Ok" <=> call.result.value # NoValue

C4_Witness ==
    /\ GotStatus(201)
    /\ call.op = "filings.list"
    /\ call.result.tag = "Ok"
    /\ call.result.value.items = <<"a", "b">>

(***************************************************************************)
(* Claims about the pagination stream, checked under Spec.                 *)
(***************************************************************************)
RECURSIVE AllItems(_)
\* The items of the pages received, pages in fetch order.
AllItems(rs) ==
    IF rs = <<>> THEN <<>>
    ELSE LET last == rs[Len(rs)]
         IN  AllItems(SubSeq(rs, 1, Len(rs) - 1))
             \o (IF last.tag = "Ok" THEN last.value.items ELSE <<>>)

AsValues(items) == [i \in 1..Len(items) |-> Item(items[i])]
IsPrefix(a, b) == Len(a) <= Len(b) /\ a = SubSeq(b, 1, Len(a))
NoErrorIn(o) == \A i \in 1..Len(o) : o[i].t = "item"
AllOk(rs) == \A i \in 1..Len(rs) : rs[i].tag = "Ok"
IsPage(r) == r.tag = "Ok"
Terminal(r) == IsPage(r) /\ (~r.value.has_more \/ ~r.value.next_cursor.some)
AtEndOfPage == Polled /\ pc = "items" /\ buffer = <<>>

\* C5: a stream run to its end over pages that all arrive has produced exactly
\* the items of the pages, pages in fetch order and items in page order; at any
\* moment it has produced a prefix of them, and it ends only on a page that has
\* no more or no cursor, never on a page for being empty.
C5_EmitsConcatenation ==
    AllOk(responses) =>
        /\ IsPrefix(out, AsValues(AllItems(responses)))
        /\ ended =>
              /\ responses # <<>>
              /\ out = AsValues(AllItems(responses))
              /\ Terminal(responses[Len(responses)])

C5_Witness ==
    /\ ended
    /\ Len(responses) = 3
    /\ AllOk(responses)
    /\ responses[1].value.items = <<"a", "b">>
    /\ responses[2].value.items = <<>>
    /\ responses[3].value.items = <<"b", "a">>
    /\ Len(out) = 4

\* C6: every page request after the first carries as cursor the nextCursor of
\* the response to the request before it.
C6_CursorFollowsPreviousResponse ==
    \A i \in 2..Len(requests) :
        /\ i - 1 <= Len(responses)
        /\ IsPage(responses[i - 1])
        /\ responses[i - 1].value.next_cursor.some
        /\ QueryParam(requests[i], "cursor") = responses[i - 1].value.next_cursor

C6_Witness ==
    /\ Len(requests) = 3
    /\ QueryParam(requests[1], "cursor") = Some("c0")
    /\ QueryParam(requests[2], "cursor") = Some("c2")
    /\ QueryParam(requests[3], "cursor") = Some("c1")

\* C7: after a page with hasMore=false the stream yields the items of the page
\* and ends, with or without a next cursor on the page; no request follows.
C7_StopsWhenNoMore ==
    \A i \in 1..Len(responses) :
        (IsPage(responses[i]) /\ ~responses[i].value.has_more) =>
            /\ Len(requests) = i
            /\ IsPrefix(out, AsValues(AllItems(responses)))
            /\ AtEndOfPage => ENABLED Break
            /\ pc = "done" => (ended /\ out = AsValues(AllItems(responses)))

C7_Witness ==
    /\ ended
    /\ Len(requests) = 1
    /\ IsPage(responses[1])
    /\ ~responses[1].value.has_more
    /\ responses[1].value.next_cursor = Some("c1")
    /\ out = <<Item("a"), Item("b")>>

\* C8: after a page with hasMore=true and no next cursor the stream yields the
\* items of the page and ends normally: no error value, no further request.
C8_StopsWithoutCursor ==
    \A i \in 1..Len(responses) :
        (/\ IsPage(responses[i])
         /\ responses[i].value.has_more
         /\ ~responses[i].value.next_cursor.some) =>
            /\ Len(requests) = i
            /\ NoErrorIn(out)
            /\ AtEndOfPage => ENABLED Break
            /\ pc = "done" => (ended /\ out = AsValues(AllItems(responses)))

C8_Witness ==
    /\ ended
    /\ Len(requests) = 2
    /\ IsPage(responses[2])
    /\ responses[2].value.has_more
    /\ ~responses[2].value.next_cursor.some
    /\ out = <<Item("a"), Item("b"), Item("a")>>

\* C9: a failed page request, the first or a later one, makes the stream
\* produce that error right after the items of the pages before it, and end:
\* the error is the last value and the failed request is the last request.
C9_ErrorEndsStream ==
    \A i \in 1..Len(responses) :
        responses[i].tag = "Err" =>
            /\ i = Len(responses)
            /\ Len(requests) = i
            /\ out = AsValues(AllItems(SubSeq(responses, 1, i - 1)))
                        \o <<Error(responses[i])>>
            /\ pc = "done"
            /\ (Polled /\ ~ended) => ENABLED PollDone

C9_Witness ==
    /\ ended
    /\ Len(responses) = 3
    /\ responses[3].tag = "Err"
    /\ responses[3].kind = "RateLimit"
    /\ Len(out) = 4
    /\ out[4].t = "err"

\* C10: a page request is sent only inside a pull of the consumer, after every
\* item of the pages before it was delivered and the consumer pulled again; a
\* consumer that stopped pulling stays stopped and no request follows.
C10_RequestsOnlyWhilePulling ==
    [][/\ requests' # requests =>
            /\ consumer = "pulling"
            /\ pulls = Len(out) + 1
            /\ buffer = <<>>
            /\ out = AsValues(AllItems(responses))
       /\ consumer = "stopped" => (consumer' = "stopped" /\ requests' = requests)
      ]_vars

C10_Witness ==
    /\ consumer = "stopped"
    /\ Len(requests) = 2
    /\ Len(responses) = 2
    /\ page.has_more
    /\ page.next_cursor.some
    /\ buffer # <<>>
    /\ Len(out) = 3

(***************************************************************************)
(* Claims about what goes on the wire.                                      *)
(***************************************************************************)
\* C11: a stream has at most one page request in flight: the requests sent
\* are the responses received, or one more, and one more exactly while the
\* stream awaits the answer; so a request is sent only after the response to
\* the one before it was received.
C11_OneRequestInFlight ==
    /\ Len(requests) - Len(responses) \in {0, 1}
    /\ (Len(requests) = Len(responses) + 1) <=> (pc = "await")

C11_Witness ==
    /\ Len(requests) = 3
    /\ Len(responses) = 2
    /\ pc = "await"

DigitsOf1703520000 == <<"1", "7", "0", "3", "5", "2", "0", "0", "0", "0">>
ExpectedReset(h) ==
    IF ~h.present THEN NoReset
    ELSE IF h.text = DigitsOf1703520000 THEN [some |-> TRUE, v |-> DigitsOf1703520000]
    ELSE IF h.text = <<"0">> THEN [some |-> TRUE, v |-> <<"0">>]
    ELSE IF h.text = <<"0", "0", "7">> THEN [some |-> TRUE, v |-> <<"7">>]
    ELSE IF h.text = <<"+", "5">> THEN [some |-> TRUE, v |-> <<"5">>]
    ELSE IF h.text = U64MaxDigits THEN [some |-> TRUE, v |-> U64MaxDigits]
    ELSE NoReset

C13_ResetAtFromHeader ==
    (Returned /\ GotStatus(429)) =>
        /\ call.result.tag = "Err"
        /\ call.result.kind = "RateLimit"
        /\ call.result.reset_at = ExpectedReset(call.resp.reset)

C13_Witness ==
    /\ Returned
    /\ GotStatus(429)
    /\ call.resp.reset = Header(<<"s", "o", "o", "n">>)
    /\ call.result.kind = "RateLimit"
    /\ ~call.result.reset_at.some

\* C20: every request uses method GET and the path of its operation with the
\* identifier inserted as it was given, and the requests of the two get
\* operations carry no query parameters.
ExpectedPath(op, id) ==
    CASE op = "filings.list" -> "/api/v1/filings"
      [] op = "filings.get" -> "/api/v1/filings/" \o id
      [] op = "insider.list" -> "/api/v1/insider/transactions"
      [] op = "institutional.list" -> "/api/v1/institutional/holdings"
      [] op = "companies.get" -> "/api/v1/companies/" \o id
      [] op = "companies.search" -> "/api/v1/companies/search"

C20_GetAndFixedPath ==
    /\ \A i \in 1..Len(call.requests) :
          /\ call.requests[i].method = "GET"
          /\ call.requests[i].path = ExpectedPath(call.op, call.id)
          /\ call.op \in GetOps => call.requests[i].query = <<>>
    /\ \A i \in 1..Len(requests) :
          /\ requests[i].method = "GET"
          /\ requests[i].path = ExpectedPath(iterOp, "")

(***************************************************************************)
(* Claims about configuration, checked under SpecConfig.                    *)
(***************************************************************************)
KeyMissingOrEmpty(b) == ~b.api_key.some \/ b.api_key.v = <<>>

FailedWithConfigError(r) ==
    /\ r.tag = "Err"
    /\ r.kind = "Config"
    /\ ~r.config.some
    /\ ~r.client.some

\* C14: build with the API key absent or empty, and new with an empty key,
\* fail with a Config error and return neither a configuration nor a client;
\* build with a non-empty key succeeds and returns the key, the base URL and
\* the timeout as they were set on the builder.
C14_BuildValidatesKey ==
    /\ outcome.op = "build" =>
          IF KeyMissingOrEmpty(outcome.input)
          THEN FailedWithConfigError(outcome.result)
          ELSE /\ outcome.result.tag = "Ok"
               /\ outcome.result.config.some
               /\ outcome.result.config.v.api_key = outcome.input.api_key.v
               /\ outcome.result.config.v.base_url = outcome.input.base_url
               /\ outcome.result.config.v.timeout = outcome.input.timeout
    /\ (outcome.op = "new" /\ outcome.input.api_key.v = <<>>) =>
          FailedWithConfigError(outcome.result)

C14_Witness ==
    /\ outcome.op = "build"
    /\ outcome.input.api_key = SomeKey(<<>>)
    /\ outcome.input.base_url.some
    /\ outcome.result.message = "API key cannot be empty"
    /\ clients = {}

\* C15: every client that exists carries a non-empty API key that is a valid
\* header value, whatever public operations were used to create it.
C15_ClientsHaveValidKey ==
    \A cl \in clients :
        /\ ApiKeyOf(cl) # <<>>
        /\ HeaderValueFromStr(cl.authorization)

(***************************************************************************)
(* Claims about query parameters, checked under SpecParams.                 *)
(***************************************************************************)
\* The name of each field on the wire.
WireName(name) ==
    CASE name = "start_date" -> "startDate"
      [] name = "end_date" -> "endDate"
      [] name = "person_cik" -> "personCik"
      [] name = "min_value" -> "minValue"
      [] name = "manager_cik" -> "managerCik"
      [] name = "put_call" -> "putCall"
      [] name = "report_period" -> "reportPeriod"
      [] name = "sic_code" -> "sicCode"
      [] OTHER -> name

\* The text of each value of the model in a query string.
WireText(ty, v) ==
    IF ty = "string" THEN v.s
    ELSE IF ty = "uint" THEN (IF v.n = 25 THEN "25" ELSE "320193")
    ELSE IF ty = "bool" THEN (IF v.b THEN "true" ELSE "false")
    ELSE CASE v.s = "Final" -> "final"
           [] v.s = "All" -> "all"
           [] v.s = "Buy" -> "buy"
           [] v.s = "Sell" -> "sell"
           [] v.s = "Call" -> "call"
           [] v.s = "Equity" -> "equity"

QuerySent == ser.pc = "sent"
PresentFields == {i \in 1..Len(Struct(ser.op)) : ser.p[SnakeName(Struct(ser.op)[i].words)].some}
PairsWithKey(key) == {j \in 1..Len(ser.query) : ser.query[j].key = key}

\* C16: the query of a list or search request has one pair for each present
\* field of the parameter object, under the camelCase name of the field and
\* with the value of the field, and no pair for an absent field.
C16_QueryHasPresentFields ==
    QuerySent =>
        /\ Len(ser.query) = Cardinality(PresentFields)
        /\ \A i \in 1..Len(Struct(ser.op)) :
              LET f == Struct(ser.op)[i]
                  name == SnakeName(f.words)
                  pairs == PairsWithKey(WireName(name))
              IN  IF i \in PresentFields
                  THEN /\ Cardinality(pairs) = 1
                       /\ \A j \in pairs :
                             ser.query[j].value = WireText(f.ty, ser.p[name])
                  ELSE pairs = {}

C16_Witness ==
    /\ QuerySent
    /\ ser.op = "insider.list"
    /\ ser.p["person_cik"].some
    /\ ser.p["derivative"] = SomeBool(FALSE)
    /\ ser.p["direction"] = SomeEnum("Sell")
    /\ ~ser.p["ticker"].some
    /\ Len(ser.query) = 3

\* Splitting text on commas: the pieces hold no comma and, joined by commas,
\* give the text back.  There is always at least one piece.
Pieces == {"", "10-K", "8-K", "a", "b"}
SplitOnCommas(text) ==
    CHOOSE l \in UNION {[1..n -> Pieces] : n \in 1..(MaxForms + 1)} :
        Join(l) = text

\* C17: the values read back from the query of a sent request are the values
\* that were set, and splitting the forms or codes parameter on commas gives
\* back the elements of the list that was given.
\* Reading a value of a given type back from its text.
ParseText(f, text) ==
    IF f.ty = "string" THEN Some(text)
    ELSE CHOOSE v \in Values(f) : WireText(f.ty, v) = text

ScalarsRoundTrip ==
    \A i \in PresentFields :
        LET f == Struct(ser.op)[i]
            name == SnakeName(f.words)
        IN  ParseText(f, QueryParam([query |-> ser.query], WireName(name)).s)
                = ser.p[name]

ListRoundTrips ==
    ser.given.some =>
        SplitOnCommas(QueryParam([query |-> ser.query], ListField(ser.op)).s)
            = ser.given.list

C17_RoundTrip == QuerySent => (ScalarsRoundTrip /\ ListRoundTrips)

\* The joined text of each list of the model.
JoinedText(list) ==
    CASE list = <<>> -> ""
      [] list = <<"10-K">> -> "10-K"
      [] list = <<"8-K">> -> "8-K"
      [] list = <<"a,b">> -> "a,b"
      [] list = <<"10-K", "10-K">> -> "10-K,10-K"
      [] list = <<"10-K", "8-K">> -> "10-K,8-K"
      [] list = <<"8-K", "10-K">> -> "8-K,10-K"
      [] list = <<"8-K", "8-K">> -> "8-K,8-K"
      [] OTHER -> Join(list)

\* C18: forms and codes store the elements joined by single commas in the
\* order given, in one string field, and the request has that text as the one
\* value of the one parameter of that name.
C18_ListJoinedByCommas ==
    ser.given.some =>
        /\ ser.p[ListField(ser.op)] = Some(JoinedText(ser.given.list))
        /\ QuerySent =>
              /\ Cardinality(PairsWithKey(ListField(ser.op))) = 1
              /\ QueryParam([query |-> ser.query], ListField(ser.op))
                    = Some(JoinedText(ser.given.list))

C18_Witness ==
    /\ QuerySent
    /\ ser.op = "insider.list"
    /\ ser.given = SomeList(<<"8-K", "10-K">>)
    /\ QueryParam([query |-> ser.query], "codes") = Some("8-K,10-K")

C21_NotFoundPathIsRequestPath ==
    GotStatus(404) =>
        /\ call.result.kind = "NotFound"
        /\ call.result.path = call.requests[1].path

\* C25: the first page request of a stream carries the filter values of the
\* parameter object given to iter or iter_search, and no cursor parameter.
C25_FirstRequestHasNoCursor ==
    requests # <<>> =>
        /\ QueryParam(requests[1], "ticker") = params.ticker
        /\ QueryParam(requests[1], "cursor") = None

FilterFields == {i \in 1..Len(Struct(iterOp)) : Struct(iterOp)[i].words # <<"cursor">>}

\* C28: every page request of a stream carries, for every field other than
\* cursor, the value of the parameter object the caller gave; following a
\* cursor changes the cursor field of the stream's own copy and nothing else.
C28_FiltersKeptAcrossPages ==
    \A i \in FilterFields :
        LET f == Struct(iterOp)[i]
            name == SnakeName(f.words)
        IN  /\ current_params[name] = params[name]
            /\ \A k \in 1..Len(requests) :
                  QueryParam(requests[k], WireName(name)) =
                      IF params[name].some
                      THEN Some(WireText(f.ty, params[name]))
                      ELSE None

C28_Witness ==
    /\ params.ticker = Some("AAPL")
    /\ Len(requests) = 3
    /\ QueryParam(requests[2], "cursor") = Some("c2")
    /\ QueryParam(requests[3], "cursor") = Some("c1")
    /\ QueryParam(requests[3], "ticker") = Some("AAPL")

\* Pages of a 2xx answer that do not decode, and pages without a cursor.
UndecodablePages ==
    {PageObject(JArr(<<ItemJson(JStr("a")), ItemJson(Missing)>>), JBool(FALSE), JNull),
     PageObject(NoItems, JBool(FALSE), JNull),
     PageObject(JsonItems(<<"a">>), Missing, JStr("c1"))}
CursorlessPages ==
    {PageObject(JsonItems(<<"a">>), JBool(TRUE), nc) : nc \in {JNull, Missing}}
Fetched(body) == Accessor(iterOp, "", Response(200, body, NoHeader))

\* C30: a page is decoded as a whole: a 2xx page with an item that does not
\* decode, or without items or hasMore, gives an error and no items, and the
\* stream emits the items of the pages before it, then the error, and ends; a
\* page whose nextCursor is null or missing decodes with no cursor.
C30_PageDecodedAsAWhole ==
    /\ \A b \in UndecodablePages :
          /\ Fetched(b).tag = "Err"
          /\ Fetched(b).value = NoValue
    /\ \A b \in CursorlessPages :
          /\ Fetched(b).tag = "Ok"
          /\ Fetched(b).value.items = <<"a">>
          /\ Fetched(b).value.next_cursor = None
    /\ \A i \in 1..Len(responses) :
          (responses[i].tag = "Err" /\ responses[i].cause = "decode") =>
              /\ IsPrefix(out, AsValues(AllItems(SubSeq(responses, 1, i - 1)))
                                 \o <<Error(responses[i])>>)
              /\ ended => out[Len(out)] = Error(responses[i])

C30_Witness ==
    /\ ended
    /\ Len(responses) = 2
    /\ responses[1].tag = "Ok"
    /\ responses[1].value.items = <<"a", "b">>
    /\ responses[2].cause = "decode"
    /\ out = <<Item("a"), Item("b"), Error(responses[2])>>

\* A fetched page that ends the stream: a failure, hasMore = false, or no cursor.
HasEnd ==
    \E i \in 1..Len(responses) : responses[i].tag = "Err" \/ Terminal(responses[i])

\* C29: with a consumer that keeps pulling, the stream ends if and only if a
\* fetched page failed, had hasMore = false or had no next cursor.  Until such
\* a page arrives the stream is never at its end and always has a next step,
\* also when the server hands out a cursor that was already followed; once
\* such a page has arrived the stream does end.
C29_EndsIffAPageEndsIt ==
    /\ [](ended => HasEnd)
    /\ []((~HasEnd /\ Len(requests) < MaxRequests) => ENABLED NextPulling)
    /\ HasEnd ~> ended

C29_Witness ==
    /\ ~ended
    /\ ~HasEnd
    /\ Len(responses) = 3
    /\ QueryParam(requests[2], "cursor") = Some("c1")
    /\ QueryParam(requests[3], "cursor") = Some("c1")
    /\ responses[3].value.next_cursor = Some("c1")
    /\ Len(out) >= 3

(***************************************************************************)
(* Claims about a client and its clones, checked under SpecShared.          *)
(***************************************************************************)
CalledVia(h) == shared.last.handle = h

\* C22: every request sent through a handle or a clone carries the headers
\* fixed at construction: Authorization "Bearer " and the API key of the
\* configuration, User-Agent earningsfeed-rust/<version>, and Accept
\* application/json; the handles keep them whatever is done with the client.
C22_HeadersFixedAtConstruction ==
    LET expected == [authorization |-> <<"Bearer ">> \o shared.config.api_key,
                     user_agent |-> "earningsfeed-rust/" \o VERSION,
                     accept |-> "application/json"]
    IN  /\ \A i \in 1..Len(shared.last.wire) :
              shared.last.wire[i].headers = expected
        /\ \A h \in 1..Len(shared.handles) :
              /\ shared.handles[h].authorization = expected.authorization
              /\ shared.handles[h].user_agent = expected.user_agent
              /\ shared.handles[h].accept = expected.accept

C22_Witness ==
    /\ CalledVia(2)
    /\ shared.config.api_key = <<"s", "k">>
    /\ Len(shared.last.wire) = 1
    /\ shared.last.wire[1].headers.authorization = <<"Bearer ", "s", "k">>
    /\ shared.last.result.tag = "Ok"

\* C24: the base URL of a client is the configured one, or
\* https://earningsfeed.com when none was set; its timeout is the configured
\* one, or 30 seconds; every handle and clone reports the same base URL, at
\* construction and after any call.
C24_BaseUrlAndTimeoutDefaults ==
    LET url == IF shared.config.base_url.some THEN shared.config.base_url.s
               ELSE "https://earningsfeed.com"
        secs == IF shared.config.timeout.some THEN shared.config.timeout.secs
                ELSE 30
    IN  /\ \A h \in 1..Len(shared.handles) :
              /\ shared.handles[h].base_url = url
              /\ shared.handles[h].timeout = secs
              /\ shared.handles[h] = shared.created
        /\ ~CalledVia(0) => shared.last.base = url

C24_Witness ==
    /\ CalledVia(2)
    /\ ~shared.config.base_url.some
    /\ ~shared.config.timeout.some
    /\ shared.last.base = "https://earningsfeed.com"
    /\ shared.handles[2].timeout = 30

\* C27: build and with_config succeed whatever the base URL string is; with a
\* base URL that is not a URL every call fails with Error::Http before any
\* request is on the wire, so without a response; with one that is a URL the
\* request is sent.
C27_BadBaseUrlFailsAtRequest ==
    LET bad == shared.config.base_url \in {Some(""), Some("not a url")}
    IN  /\ shared.built.tag = "Ok"
        /\ shared.made.tag = "Ok"
        /\ shared.created.some
        /\ (~CalledVia(0) /\ bad) =>
              /\ shared.last.wire = <<>>
              /\ shared.last.result.tag = "Err"
              /\ shared.last.result.kind = "Http"
              /\ shared.last.result.cause = "builder"
        /\ (~CalledVia(0) /\ ~bad) => Len(shared.last.wire) = 1

C27_Witness ==
    /\ CalledVia(1)
    /\ shared.config.base_url = Some("not a url")
    /\ shared.last.op = "filings.get"
    /\ shared.last.wire = <<>>
    /\ shared.last.result.kind = "Http"

(***************************************************************************)
(* Claims about interleaved use of one client, checked under SpecPair.      *)
(***************************************************************************)
\* What a stream with parameter object p sends and emits when it runs alone
\* against the server, for at most n page requests.
RECURSIVE Alone(_, _, _, _)
Alone(server, op, p, n) ==
    IF n = 0 THEN [requests |-> <<>>, out |-> <<>>]
    ELSE LET req == Request(op, p)
             res == Accessor(op, "", server[req])
         IN  IF res.tag = "Err"
             THEN [requests |-> <<req>>, out |-> <<Error(res)>>]
             ELSE IF ~res.value.has_more \/ ~res.value.next_cursor.some
             THEN [requests |-> <<req>>, out |-> AsValues(res.value.items)]
             ELSE LET rest == Alone(server, op,
                                    [p EXCEPT !.cursor = res.value.next_cursor],
                                    n - 1)
                  IN  [requests |-> <<req>> \o rest.requests,
                       out |-> AsValues(res.value.items) \o rest.out]

\* C23: whatever the interleaving of two streams and a direct call on one
\* client, each stream sends the requests and emits the values, in order,
\* that it would alone against the same server, following only cursors of
\* its own pages, and the direct call returns what it would alone.
C23_InterleavingChangesNothing ==
    pair.pc = "run" =>
        /\ \A i \in 1..2 :
              LET it == pair.its[i]
                  alone == Alone(pair.server, pair.op, it.params, MaxPages)
              IN  /\ IsPrefix(it.requests, alone.requests)
                  /\ IsPrefix(it.out, alone.out)
                  /\ it.pc = "done" => it.out = alone.out
        /\ pair.direct # NoResult =>
              pair.direct = Accessor(pair.op, "",
                               pair.server[Request(pair.op, DefaultParams(pair.op))])

C23_Witness ==
    /\ pair.pc = "run"
    /\ pair.its[1].pc = "await"
    /\ pair.its[2].pc = "await"
    /\ Len(pair.its[1].requests) = 2
    /\ Len(pair.its[2].requests) = 2
    /\ pair.its[2].params.ticker = Some("AAPL")
    /\ pair.its[1].requests[2] # pair.its[2].requests[2]
    /\ pair.its[1].out # <<>>
    /\ pair.its[2].out # <<>>
    /\ pair.direct.tag = "Ok"

====
